---- MODULE Spec2Model ----
(***************************************************************************)
(* Order placement of the phone storefront (chatbot/views.py,              *)
(* create_order).  Every request is handled by its own handler; handlers   *)
(* interleave at the points where they touch the database: the read of the *)
(* Phone row, the insert of the Order row and the save of the Phone row.   *)
(* Prices are whole centavos, so Decimal arithmetic is integer arithmetic. *)
(***************************************************************************)
EXTENDS Integers, Sequences, FiniteSets, TLC

\* ---------------------------------------------------------------- bounds
NumReq == 2          \* placement requests in one behaviour
NumPhones == 1       \* rows of the Phone table
MaxStock == 2        \* largest initial stock of a phone
MaxQty == 2          \* largest quantity a request asks for

Requests == 1..NumReq
PhoneIds == 1..NumPhones

\* phone_id absent from the body (data.get gives None) or a falsy value
NoPhoneId == 0
\* an id that no row of the Phone table has
UnknownPhoneId == NumPhones + 1

CustomerFields == {"customer_name", "customer_email", "customer_phone", "shipping_address"}

\* The 'quantity' member of the JSON body: left out, a value int() rejects
\* (text such as "abc", or null), or an integer: negative, zero or positive.
QuantityInputs ==
    {[kind |-> "omitted", val |-> 0], [kind |-> "bad", val |-> 0]}
    \cup {[kind |-> "int", val |-> v] : v \in (0 - 1)..MaxQty}

\* The JSON bodies a request may carry; 'present' is the set of customer
\* fields that are there and non-empty: all of them, or all but one.
Inputs ==
    {[phone_id |-> i, quantity |-> q, present |-> f] :
        i \in {NoPhoneId} \cup PhoneIds \cup {UnknownPhoneId},
        q \in QuantityInputs,
        f \in {CustomerFields} \cup {CustomerFields \ {c} : c \in CustomerFields}}

\* price_php of the catalog rows, in centavos (25999.00 for phone 1)
CatalogPrice(id) == 2599900 + (id - 1) * 1000050

NoPhone == [id |-> 0, price_php |-> 0, stock |-> 0, is_available |-> FALSE]
NoResp == [status |-> 0, message |-> "", units |-> 0, order_id |-> 0, total_price_php |-> 0]

VARIABLES
    phones,       \* Phone table: id -> row
    orders,       \* Order table: sequence of rows, id = position
    stock0,       \* the stock every phone started with (history)
    pc,           \* where each request's handler stands
    quantity,     \* local: int(data.get('quantity', 1))
    phone,        \* local: the Phone instance read by objects.get
    total_price,  \* local
    order,        \* local: id of the Order instance created, 0 before that
    resp          \* the JsonResponse returned, NoResp before that

vars == <<phones, orders, stock0, pc, quantity, phone, total_price, order, resp>>

\* ------------------------------------------------------- pure helpers
\* int(data.get('quantity', 1)) raises for a value that is no integer
QuantityParses(q) == q.kind # "bad"
ParseQuantity(q) == IF q.kind = "omitted" THEN 1 ELSE q.val

\* all([phone_id, customer_name, customer_email, customer_phone, shipping_address])
AllFieldsPresent(d) == d.phone_id # NoPhoneId /\ d.present = CustomerFields

\* faulty variant: the lookup leaves out the is_available=True filter
PhoneFoundAnyAvailability(tbl, id) == id \in DOMAIN tbl

\* Phone.objects.get(id=phone_id, is_available=True) finds a row
PhoneFound(tbl, id) == id \in DOMAIN tbl /\ tbl[id].is_available

\* faulty variant: the stock check is off by one
InsufficientStockOffByOne(stock, q) == stock < q - 1

\* faulty variant: the stock check never refuses
InsufficientStockNever(stock, q) == FALSE

\* phone.stock < quantity
InsufficientStock(stock, q) == stock < q

\* faulty variant: the total leaves out the quantity
TotalPriceOfOne(price, q) == price

\* phone.price_php * quantity
TotalPrice(price, q) == price * q

\* phone.stock -= quantity
DecrementedStock(stock, q) == stock - q

\* faulty variant: the availability flag is never cleared
AvailabilityKept(stock, avail) == avail

\* if phone.stock == 0: phone.is_available = False
AvailabilityAfter(stock, avail) == IF stock = 0 THEN FALSE ELSE avail

\* float(total_price) as the response carries it: the double nearest to an
\* amount of two decimals below 10^13 prints as that same amount
FloatOf(cents) == cents

ErrorResponse(code, text, n) ==
    [status |-> code, message |-> text, units |-> n, order_id |-> 0, total_price_php |-> 0]

\* ------------------------------------------------------------- Init
\* The catalog before the first request: the first phone in any state a
\* catalog allows (sold out and off the list, in stock and listed, in stock
\* and taken off the list by hand), the other phones listed with one unit.
Catalog ==
    {c \in [PhoneIds -> [id : PhoneIds, price_php : {CatalogPrice(i) : i \in PhoneIds},
                         stock : 0..MaxStock, is_available : BOOLEAN]] :
        \A i \in PhoneIds :
            /\ c[i].id = i
            /\ c[i].price_php = CatalogPrice(i)
            /\ (c[i].stock = 0 => ~c[i].is_available)
            /\ (i > 1 => c[i].stock = 1 /\ c[i].is_available)}

Init ==
    /\ phones \in Catalog
    /\ orders = <<>>
    /\ stock0 = [i \in PhoneIds |-> phones[i].stock]
    /\ pc = [r \in Requests |-> "idle"]
    /\ quantity = [r \in Requests |-> 0]
    /\ phone = [r \in Requests |-> NoPhone]
    /\ total_price = [r \in Requests |-> 0]
    /\ order = [r \in Requests |-> 0]
    /\ resp = [r \in Requests |-> NoResp]

\* ------------------------------------------------------------ actions
\* The handler of r returns response a: its locals are gone.
Return(r, a) ==
    /\ resp' = [resp EXCEPT ![r] = a]
    /\ pc' = [pc EXCEPT ![r] = "done"]
    /\ quantity' = [quantity EXCEPT ![r] = 0]
    /\ phone' = [phone EXCEPT ![r] = NoPhone]
    /\ total_price' = [total_price EXCEPT ![r] = 0]
    /\ order' = [order EXCEPT ![r] = 0]

\* lines 180-213 for body d: parse the quantity, check the fields, read the
\* phone, check its stock, compute the total.  The read at line 198 is the
\* only access to the database; the lines around it work on locals, so they
\* make one step with it and every interleaving of the handlers' database
\* accesses is still there.
BeginData(r, d) ==
    /\ pc[r] = "idle"
    /\ IF ~QuantityParses(d.quantity)
       THEN Return(r, ErrorResponse(500, "Error creating order", 0))
       ELSE IF ~AllFieldsPresent(d)
       THEN Return(r, ErrorResponse(400, "All fields are required", 0))
       ELSE IF ~PhoneFound(phones, d.phone_id)
       THEN Return(r, ErrorResponse(404, "Phone not found or not available", 0))
       ELSE IF InsufficientStock(phones[d.phone_id].stock, ParseQuantity(d.quantity))
       THEN Return(r, ErrorResponse(400, "Only units available in stock", phones[d.phone_id].stock))
       ELSE /\ quantity' = [quantity EXCEPT ![r] = ParseQuantity(d.quantity)]
            /\ phone' = [phone EXCEPT ![r] = phones[d.phone_id]]
            /\ total_price' = [total_price EXCEPT ![r] =
                                  TotalPrice(phones[d.phone_id].price_php, ParseQuantity(d.quantity))]
            /\ pc' = [pc EXCEPT ![r] = "create"]
            /\ UNCHANGED <<resp, order>>
    /\ UNCHANGED <<phones, orders, stock0>>

\* Requests are numbered in the order in which their handlers start.
Begin(r) ==
    /\ \A r2 \in Requests : r2 < r => pc[r2] # "idle"
    /\ \E d \in Inputs : BeginData(r, d)

\* The row Order.objects.create(...) inserts for request r; 'customer' is
\* the customer name, email, phone and address the request carried.
OrderRow(id, r) ==
    [id |-> id,
     customer |-> r,
     phone |-> phone[r].id,
     quantity |-> quantity[r],
     total_price_php |-> total_price[r],
     status |-> "pending"]

\* lines 216-225: Order.objects.create(...) inserts the row
CreateOrder(r) ==
    /\ pc[r] = "create"
    /\ orders' = Append(orders, OrderRow(Len(orders) + 1, r))
    /\ order' = [order EXCEPT ![r] = Len(orders) + 1]
    /\ pc' = [pc EXCEPT ![r] = "update"]
    /\ UNCHANGED <<phones, stock0, quantity, phone, total_price, resp>>

\* lines 216-225 and 240-244: the insert raises (the database rejects the
\* row or is unreachable); nothing is written
CreateOrderFails(r) ==
    /\ pc[r] = "create"
    /\ Return(r, ErrorResponse(500, "Error creating order", 0))
    /\ UNCHANGED <<phones, orders, stock0>>

\* lines 228-230: the instance after the decrement
UpdatedPhone(p, q) ==
    [p EXCEPT !.stock = DecrementedStock(p.stock, q),
              !.is_available = AvailabilityAfter(DecrementedStock(p.stock, q), p.is_available)]

\* lines 233-238
SuccessResponse(id, total) ==
    [status |-> 200, message |-> "Order placed successfully!", units |-> 0,
     order_id |-> id, total_price_php |-> FloatOf(total)]

\* lines 228-238: decrement the instance, save every field of it, answer
SavePhone(r) ==
    /\ pc[r] = "update"
    /\ phones' = [phones EXCEPT ![phone[r].id] = UpdatedPhone(phone[r], quantity[r])]
    /\ Return(r, SuccessResponse(order[r], total_price[r]))
    /\ UNCHANGED <<orders, stock0>>

\* lines 228-231 and 240-244: phone.save() raises; the Order row inserted
\* before stays, as no transaction encloses the two writes
SavePhoneFails(r) ==
    /\ pc[r] = "update"
    /\ Return(r, ErrorResponse(500, "Error creating order", 0))
    /\ UNCHANGED <<phones, orders, stock0>>

Next ==
    \E r \in Requests :
        \/ Begin(r)
        \/ CreateOrder(r)
        \/ CreateOrderFails(r)
        \/ SavePhone(r)
        \/ SavePhoneFails(r)

Spec == Init /\ [][Next]_vars

\* Requests handled one after the other: a request begins only when no
\* other handler is between its first and its last line.
NoneInFlight == \A r \in Requests : pc[r] \in {"idle", "done"}

BeginAlone(r) == NoneInFlight /\ Begin(r)

SerialNext ==
    \E r \in Requests :
        \/ BeginAlone(r)
        \/ CreateOrder(r)
        \/ CreateOrderFails(r)
        \/ SavePhone(r)
        \/ SavePhoneFails(r)

SerialSpec == Init /\ [][SerialNext]_vars

\* ------------------------------------------------------------ claims
OrdersOf(r) == {i \in 1..Len(orders) : orders[i].customer = r}
OrdersOn(p) == {i \in 1..Len(orders) : orders[i].phone = p}

RECURSIVE SumQuantity(_, _)
SumQuantity(rows, p) ==
    IF rows = <<>> THEN 0
    ELSE (IF Head(rows).phone = p THEN Head(rows).quantity ELSE 0) + SumQuantity(Tail(rows), p)

Succeeded(r) == pc[r] = "done" /\ resp[r].status = 200

\* C1: two placements against the same phone, the only ones that ordered
\* it, whose quantities together exceed the stock the phone started with,
\* do not both succeed.
C1_NoDoubleSuccess ==
    \A r1, r2 \in Requests :
        (/\ r1 # r2
         /\ Succeeded(r1)
         /\ Succeeded(r2)
         /\ orders[resp[r1].order_id].phone = orders[resp[r2].order_id].phone
         /\ OrdersOn(orders[resp[r1].order_id].phone) = {resp[r1].order_id, resp[r2].order_id})
        => orders[resp[r1].order_id].quantity + orders[resp[r2].order_id].quantity
              <= stock0[orders[resp[r1].order_id].phone]

\* C2: once a placement request has finished, an Order row of that request
\* exists if and only if the request saved its stock decrement (it saved
\* the phone exactly when it answered 200).
C2_OrderIffDecrement ==
    \A r \in Requests :
        pc[r] = "done" => ((OrdersOf(r) # {}) <=> (resp[r].status = 200))

\* The bodies with a phone_id, every customer field and a quantity that
\* int() accepts.
CompleteInputs ==
    {d \in Inputs : d.quantity.kind # "bad" /\ d.phone_id # NoPhoneId /\ d.present = CustomerFields}

\* C3: a placement of quantity >= 1 that runs alone and succeeds has added
\* exactly one Order, pending, with the quantity asked and total = price x
\* quantity; the save leaves the phone's stock at stock before - quantity and
\* no other phone changed; the response carries that order's id and total.
C3_ValidPlacement ==
    [][\A r \in Requests :
          (quantity[r] >= 1 /\ SavePhone(r)) =>
              /\ Cardinality({i \in 1..Len(orders') : orders'[i].customer = r}) = 1
              /\ orders' = orders
              /\ orders[order[r]].customer = r
              /\ orders[order[r]].status = "pending"
              /\ orders[order[r]].quantity = quantity[r]
              /\ orders[order[r]].phone = phone[r].id
              /\ orders[order[r]].total_price_php = phones[phone[r].id].price_php * quantity[r]
              /\ phones'[phone[r].id].stock = phones[phone[r].id].stock - quantity[r]
              /\ phones'[phone[r].id].price_php = phones[phone[r].id].price_php
              /\ \A p \in PhoneIds \ {phone[r].id} : phones'[p] = phones[p]
              /\ resp'[r].status = 200
              /\ resp'[r].order_id = orders[order[r]].id
              /\ resp'[r].total_price_php = orders[order[r]].total_price_php]_vars

\* a placement of 2 units of the 25999.00 phone has succeeded: total 51998.00
C3_Witness ==
    \E r \in Requests :
        /\ Succeeded(r)
        /\ resp[r].total_price_php = 5199800
        /\ orders[resp[r].order_id].quantity = 2
        /\ phones[1].stock = stock0[1] - 2

\* C4: a placement that asks more than the stock of an existing, available
\* phone answers 400 with the phone's current stock in the message, has no
\* Order, and leaves every phone and the order table as they were.
C4_InsufficientStock ==
    [][\A r \in Requests :
         (pc[r] = "idle" /\ pc'[r] # "idle") =>
         \A d \in CompleteInputs :
          (/\ d.phone_id \in PhoneIds
           /\ phones[d.phone_id].is_available
           /\ ParseQuantity(d.quantity) > phones[d.phone_id].stock
           /\ BeginData(r, d)) =>
              /\ pc'[r] = "done"
              /\ resp'[r].status = 400
              /\ resp'[r].message = "Only units available in stock"
              /\ resp'[r].units = phones[d.phone_id].stock
              /\ {i \in 1..Len(orders') : orders'[i].customer = r} = {}
              /\ orders' = orders
              /\ phones' = phones]_vars

\* after an order reduced a stock of 2 to 1, a placement was refused with
\* 'Only 1 units available' and the stock is still 1
C4_Witness ==
    \E r \in Requests, p \in PhoneIds :
        /\ pc[r] = "done"
        /\ resp[r].status = 400
        /\ resp[r].units = 1
        /\ OrdersOf(r) = {}
        /\ phones[p].stock = 1 /\ phones[p].is_available /\ stock0[p] = 2 /\ OrdersOn(p) # {}
        /\ \A q \in PhoneIds \ {p} : stock0[q] = 0

\* C5: in every state a phone with stock 0 is unavailable; every save of a
\* phone writes availability false when it writes stock 0 and availability
\* true when it writes a positive stock.
StockZeroUnavailable == \A p \in PhoneIds : phones[p].stock = 0 => ~phones[p].is_available

C5_ZeroStockUnavailable ==
    /\ []StockZeroUnavailable
    /\ [][\A r \in Requests :
            SavePhone(r) =>
               /\ phones'[phone[r].id].stock = 0 => ~phones'[phone[r].id].is_available
               /\ phones'[phone[r].id].stock > 0 => phones'[phone[r].id].is_available]_vars

\* an order brought a phone that was in stock down to 0, and it is unavailable
C5_Witness ==
    \E p \in PhoneIds :
        /\ stock0[p] > 0
        /\ phones[p].stock = 0
        /\ ~phones[p].is_available
        /\ Cardinality(OrdersOn(p)) = 1

\* C6: a request whose quantity is zero, negative or not an integer
\* answers 400 and writes nothing; every Order has quantity >= 1 and no step
\* raises a phone's stock.
InvalidQuantity(q) == q.kind = "bad" \/ (q.kind = "int" /\ q.val < 1)

C6_QuantityValidated ==
    [][/\ \A r \in Requests, d \in Inputs :
            (BeginData(r, d) /\ InvalidQuantity(d.quantity)) =>
                /\ pc'[r] = "done"
                /\ resp'[r].status = 400
                /\ orders' = orders
                /\ phones' = phones
       /\ \A i \in 1..Len(orders') : orders'[i].quantity >= 1
       /\ \A p \in PhoneIds : phones'[p].stock <= phones[p].stock]_vars

\* C7: a request that lacks phone_id or a customer field answers 400
\* whatever its quantity, and writes nothing.
C7_MissingFieldRejected ==
    [][\A r \in Requests, d \in Inputs :
          (BeginData(r, d) /\ (d.phone_id = NoPhoneId \/ d.present # CustomerFields)) =>
              /\ pc'[r] = "done"
              /\ resp'[r].status = 400
              /\ orders' = orders
              /\ phones' = phones]_vars

\* C8: a request with every field present and a quantity int() accepts,
\* whose phone_id names no phone or an unavailable one, answers 404 whatever
\* the stock and the quantity, has no Order and leaves every phone as it was.
C8_UnavailableNotFound ==
    [][\A r \in Requests :
         (pc[r] = "idle" /\ pc'[r] # "idle") =>
         \A d \in CompleteInputs :
          (/\ \/ d.phone_id \notin PhoneIds
              \/ ~phones[d.phone_id].is_available
           /\ BeginData(r, d)) =>
              /\ pc'[r] = "done"
              /\ resp'[r].status = 404
              /\ {i \in 1..Len(orders') : orders'[i].customer = r} = {}
              /\ orders' = orders
              /\ phones' = phones]_vars

\* every phone was sold out by an order and is off the list, and a later
\* request was answered 404
C8_Witness ==
    \E r \in Requests :
        /\ pc[r] = "done"
        /\ resp[r].status = 404
        /\ \A p \in PhoneIds :
              /\ stock0[p] > 0
              /\ phones[p].stock = 0
              /\ ~phones[p].is_available
              /\ \E i \in OrdersOn(p) : Succeeded(orders[i].customer)

\* C9: every phone's stock is a non-negative integer in every state.
C9_StockNonNegative == \A p \in PhoneIds : phones[p].stock \in Nat

\* two placements that overlapped on one phone have both saved it
C9_Witness ==
    \E p \in PhoneIds :
        /\ Cardinality(OrdersOn(p)) >= 2
        /\ \A i \in OrdersOn(p) : Succeeded(orders[i].customer) /\ orders[i].quantity >= 1
        /\ SumQuantity(orders, p) > stock0[p]

\* C10: when no placement is in flight, every phone's stock plus the
\* quantities of the Orders on it is the stock the phone started with.
C10_StockConserved ==
    NoneInFlight => \A p \in PhoneIds : phones[p].stock + SumQuantity(orders, p) = stock0[p]

====
